---- MODULE Spec2Model ----
(***************************************************************************)
(* The request/retry loop of scripts/riot_client.py (RiotClient._request)  *)
(* as a state machine.  One call of _request is: a start step, one step    *)
(* per iteration of the `for attempt in range(1, max_retries + 1)` loop    *)
(* (the HTTP request, the classification of its outcome, and the sleep     *)
(* that iteration performs), and a final step for the code after the loop. *)
(* The transport (requests.Session.request) is the environment: every      *)
(* request is answered by any one of the outcomes of Outcomes.  Before the *)
(* first call the client is constructed (RiotClient.__init__).  A second   *)
(* specification, SpecFetch, is fetch_and_save_lol_matches of              *)
(* scripts/extract_lol.py over the ways a client call can end.             *)
(***************************************************************************)
EXTENDS Integers, Sequences, FiniteSets, TLC

\* Largest RiotConfig.max_retries explored (the field is a free int).
MaxRetriesBound == 3

\* Number of calls made on one client in a behaviour.
MaxCalls == 2

\* Longest match-id listing explored.
MaxMatches == 3

\* RiotConfig.max_retries and RiotConfig.timeout when the caller gives none.
DefaultMaxRetries == 3
DefaultTimeout == 10

\* Python's None and a present value.
None == <<>>
Some(x) == <<x>>

-----------------------------------------------------------------------------
(* Responses of the transport                                              *)

\* Header values are sequences of characters, so that int() can be modelled
\* by what it does to them.
Digits == {"0", "1", "2", "3", "4", "5", "6", "7", "8", "9"}

DigitValue(c) ==
    CASE c = "0" -> 0 [] c = "1" -> 1 [] c = "2" -> 2 [] c = "3" -> 3
      [] c = "4" -> 4 [] c = "5" -> 5 [] c = "6" -> 6 [] c = "7" -> 7
      [] c = "8" -> 8 [] c = "9" -> 9

\* Values of a Retry-After header a server may send: the empty string, zero,
\* a positive and a negative integer, a word, and a decimal fraction.
RetryAfterValues ==
    { <<>>, <<"0">>, <<"7">>, <<"-", "1">>, <<"a", "b", "c">>, <<"1", ".", "5">> }

\* Values of a Content-Type header, as sequences of tokens; the code tests
\* whether "application/json" occurs in the value.
ContentTypeValues ==
    { <<"application/json", ";", "charset=utf-8">>, <<"text/html">> }

\* JSON structures a response body can hold.
JsonBodies == {"{ok: true}", "[m1, m2]"}

\* resp.headers: a mapping from the header names present to their values.
NoHeaders == [n \in {} |-> <<>>]
WithHeader(name, value) == [n \in {name} |-> value]

\* resp.headers.get(name): None when the header is absent.
HeaderGet(headers, name) ==
    IF name \in DOMAIN headers THEN Some(headers[name]) ELSE None

\* resp.headers.get(name, ""): the default is the empty string.
HeaderGetOrEmpty(headers, name) ==
    IF name \in DOMAIN headers THEN headers[name] ELSE <<>>

\* requests.Response.ok : raise_for_status() does not raise, that is the
\* status is neither 4xx nor 5xx.
Ok(status) == ~(400 <= status /\ status < 600)

Response(status, headers, json_data) ==
    [kind |-> "response", status_code |-> status, ok |-> Ok(status),
     headers |-> headers, json_data |-> json_data]

\* session.request raising a requests.RequestException subclass.
TransportFailures ==
    { [kind |-> "exception", exc |-> e] : e \in {"ConnectionError", "Timeout"} }

RateLimitResponses ==
    { Response(429, NoHeaders, "rate-limited") }
      \cup { Response(429, WithHeader("Retry-After", v), "rate-limited") :
                v \in RetryAfterValues }

ServerErrorResponses ==
    { Response(s, NoHeaders, "server-error") : s \in {500, 501, 502, 503, 504} }
      \cup { Response(503, WithHeader("Retry-After", <<"7">>), "server-error") }

ClientErrorResponses ==
    { Response(s, NoHeaders, "denied") : s \in {403, 404} }

NotModifiedResponses == { Response(304, NoHeaders, "") }

SuccessResponses ==
    { Response(200, NoHeaders, j) : j \in JsonBodies }
      \cup { Response(200, WithHeader("Content-Type", c), j) :
                c \in ContentTypeValues, j \in JsonBodies }

Responses ==
    RateLimitResponses \cup ServerErrorResponses \cup ClientErrorResponses
      \cup NotModifiedResponses \cup SuccessResponses

Outcomes == TransportFailures \cup Responses

\* resp.json(): the structure the body holds.  resp.text: its text.
JsonOf(resp) == [form |-> "json", data |-> resp.json_data]
TextOf(resp) == [form |-> "text", data |-> resp.json_data]

-----------------------------------------------------------------------------
(* Pure helpers of _request                                                *)

\* int(s) succeeds on an optional sign followed by one or more digits.
Unsigned(s) == IF s # <<>> /\ Head(s) \in {"+", "-"} THEN Tail(s) ELSE s

IntParseable(s) ==
    /\ Unsigned(s) # <<>>
    /\ \A i \in 1..Len(Unsigned(s)) : Unsigned(s)[i] \in Digits

RECURSIVE DigitsValue(_)
DigitsValue(s) ==
    IF s = <<>> THEN 0
    ELSE 10 * DigitsValue(SubSeq(s, 1, Len(s) - 1)) + DigitValue(s[Len(s)])

IntOf(s) ==
    IF Head(s) = "-" THEN 0 - DigitsValue(Unsigned(s)) ELSE DigitsValue(Unsigned(s))

\* The truth value of `retry_after` in `if retry_after`: None and "" are false.
Truthy(opt) == opt # None /\ opt[1] # <<>>

\* 2 ** attempt
Backoff(a) == 2 ^ a

\* "application/json" in resp.headers.get("Content-Type", "")
IsJsonContent(resp) ==
    \E i \in 1..Len(HeaderGetOrEmpty(resp.headers, "Content-Type")) :
        HeaderGetOrEmpty(resp.headers, "Content-Type")[i] = "application/json"

\* Exceptions: the class, RiotAPIError.status_code, the response text quoted
\* in the message, and the exception quoted in the message.
RiotAPIError(status_code, text, cause) ==
    [type |-> "RiotAPIError", status_code |-> status_code, text |-> text,
     cause |-> cause]

RequestException(e) ==
    [type |-> e, status_code |-> None, text |-> None, cause |-> None]

ValueError ==
    [type |-> "ValueError", status_code |-> None, text |-> None, cause |-> None]

Return(v) == [kind |-> "return", value |-> v]
Raise(e) == [kind |-> "raise", exc |-> e]

-----------------------------------------------------------------------------
VARIABLES
    max_retries,    \* RiotConfig.max_retries
    pc,             \* "idle", "loop" (inside _request), "done" (call ended)
    calls,          \* number of calls started on this client
    call,           \* the operation of the current call and its game argument
    attempt,        \* the loop variable of _request
    last_exc,       \* the local last_exc of _request
    requests,       \* outcomes of the session.request calls of this call
    sleeps,         \* arguments of the time.sleep calls of this call
    result,         \* None while running; what the call returned or raised
    api_key,        \* RiotConfig.api_key
    config_timeout, \* RiotConfig.timeout
    headers,        \* the local headers of _request
    timeout,        \* the local timeout of _request
    sent,           \* headers and timeout of the session.request calls of this call
    exhausted_before \* an earlier call on this client used up its attempts
                     \* and left an exception in its last_exc

config == <<api_key, max_retries, config_timeout>>

vars ==
    <<max_retries, pc, calls, call, attempt, last_exc, requests, sleeps, result,
      api_key, config_timeout, headers, timeout, sent, exhausted_before>>

\* State of one run of fetch_and_save_lol_matches (scripts/extract_lol.py).
VARIABLES
    f_pc,           \* "start", "listing", "details", "done"
    listing,        \* None, or how get_lol_match_ids_by_puuid ended
    match_ids,      \* the local match_ids
    details,        \* how the get_lol_match_detail calls ended, in order
    saves,          \* the match ids save_match_json was called with, in order
    saved_ids,      \* the local saved_ids
    f_result        \* None while running; what the function returned or raised

fvars == <<f_pc, listing, match_ids, details, saves, saved_ids, f_result>>

\* Before the client is constructed.
Init ==
    /\ max_retries = DefaultMaxRetries
    /\ config_timeout = DefaultTimeout
    /\ api_key = <<>>
    /\ pc = "new"
    /\ calls = 0
    /\ call = [op |-> "none", game |-> None, headers |-> None, timeout |-> None]
    /\ attempt = 1
    /\ last_exc = None
    /\ requests = <<>>
    /\ sleeps = <<>>
    /\ result = None
    /\ headers = NoHeaders
    /\ timeout = DefaultTimeout
    /\ sent = <<>>
    /\ exhausted_before = FALSE

\* Values of the RIOT_API_KEY environment variable: unset, empty, a key.
EnvApiKeys == {None, Some(<<>>), Some(<<"k", "e", "y">>)}

\* RiotConfig objects a caller passes: a key with every max_retries explored,
\* the configuration of the tests (timeout 1, max_retries 2), and one whose
\* api_key is the empty string.
Configs ==
    { [api_key |-> <<"k", "e", "y">>, max_retries |-> r, timeout |-> DefaultTimeout] :
        r \in 0..MaxRetriesBound }
      \cup { [api_key |-> <<"d", "u", "m", "m", "y">>, max_retries |-> 2, timeout |-> 1],
             [api_key |-> <<>>, max_retries |-> DefaultMaxRetries,
              timeout |-> DefaultTimeout] }

\* RiotClient(): the configuration is read from the environment; a missing
\* or empty RIOT_API_KEY is a ValueError.
ConstructFromEnv(key) ==
    /\ pc = "new"
    /\ IF ~Truthy(key)
       THEN /\ pc' = "failed"
            /\ result' = Raise(ValueError)
            /\ UNCHANGED config
       ELSE /\ pc' = "idle"
            /\ api_key' = key[1]
            /\ max_retries' = DefaultMaxRetries
            /\ config_timeout' = DefaultTimeout
            /\ UNCHANGED result
    /\ UNCHANGED <<calls, call, attempt, last_exc, requests, sleeps, headers,
                   timeout, sent, exhausted_before, fvars>>

\* RiotClient(config): the configuration is stored as it is.
ConstructWithConfig(cfg) ==
    /\ pc = "new"
    /\ pc' = "idle"
    /\ api_key' = cfg.api_key
    /\ max_retries' = cfg.max_retries
    /\ config_timeout' = cfg.timeout
    /\ UNCHANGED <<calls, call, attempt, last_exc, requests, sleeps, result,
                   headers, timeout, sent, exhausted_before, fvars>>

\* Mutant: an X-Riot-Token of the caller is kept.
RequestHeaders_KeepCaller(given) ==
    [n \in (IF given = None THEN {} ELSE DOMAIN given[1]) \cup {"X-Riot-Token"} |->
        IF given # None /\ n \in DOMAIN given[1] THEN given[1][n] ELSE api_key]

\* headers = kwargs.pop("headers", {}); headers["X-Riot-Token"] = api_key
RequestHeaders(given) ==
    [n \in (IF given = None THEN {} ELSE DOMAIN given[1]) \cup {"X-Riot-Token"} |->
        IF n = "X-Riot-Token" THEN api_key ELSE given[1][n]]

\* timeout = kwargs.pop("timeout", self.config.timeout)
RequestTimeout(given) == IF given = None THEN config_timeout ELSE given[1]

\* The headers and timeout keyword arguments a caller of _request passes:
\* neither (the wrappers), or both, with an X-Riot-Token of the caller's own.
CallerKwargs ==
    { [headers |-> None, timeout |-> None],
      [headers |-> Some([n \in {"X-Riot-Token", "Accept"} |->
                            IF n = "Accept" THEN <<"*/*">> ELSE <<"o", "w", "n">>]),
       timeout |-> Some(5)] }

\* The previous call ended after its last attempt with an exception recorded.
LeavesError == pc = "done" /\ attempt > max_retries /\ last_exc # None

\* Mutant: the loop runs two iterations too many.
InRange_TwoMore(a) == a <= max_retries + 2

\* range(1, max_retries + 1) still yields `a`.
InRange(a) == a <= max_retries

\* Mutant: the except clause sleeps after the last attempt too.
NotLastAttempt_Always(a) == a <= max_retries

\* `attempt < self.config.max_retries` in the except clause.
NotLastAttempt(a) == a < max_retries

\* Mutant: attempt and last_exc live on the client and survive a call.
StartRequest_SharedState(kwargs) ==
    /\ pc \in {"idle", "done"}
    /\ calls < MaxCalls
    /\ calls' = calls + 1
    /\ call' = [op |-> "_request", game |-> None,
                headers |-> kwargs.headers, timeout |-> kwargs.timeout]
    /\ headers' = RequestHeaders(kwargs.headers)
    /\ timeout' = RequestTimeout(kwargs.timeout)
    /\ requests' = <<>>
    /\ sent' = <<>>
    /\ sleeps' = <<>>
    /\ result' = None
    /\ pc' = "loop"
    /\ exhausted_before' = (exhausted_before \/ LeavesError)
    /\ UNCHANGED <<config, attempt, last_exc, fvars>>

\* A wrapper (get_lol_match_detail, ...) calls _request: the locals are fresh.
StartRequest(kwargs) ==
    /\ pc \in {"idle", "done"}
    /\ calls < MaxCalls
    /\ calls' = calls + 1
    /\ call' = [op |-> "_request", game |-> None,
                headers |-> kwargs.headers, timeout |-> kwargs.timeout]
    /\ headers' = RequestHeaders(kwargs.headers)
    /\ timeout' = RequestTimeout(kwargs.timeout)
    /\ attempt' = 1
    /\ last_exc' = None
    /\ requests' = <<>>
    /\ sent' = <<>>
    /\ sleeps' = <<>>
    /\ result' = None
    /\ pc' = "loop"
    /\ exhausted_before' = (exhausted_before \/ LeavesError)
    /\ UNCHANGED <<config, fvars>>

\* Mutant: a third game is accepted.
SupportedGames_WithValorant == {"lol", "tft", "valorant"}

\* The games that have a platform base URL in base_urls.
SupportedGames == {"lol", "tft"}

\* get(path, game): the base URL is resolved before the retry loop is entered;
\* a game without a base URL is a ValueError and nothing is sent.
Get(game) ==
    /\ pc \in {"idle", "done"}
    /\ calls < MaxCalls
    /\ calls' = calls + 1
    /\ call' = [op |-> "get", game |-> Some(game), headers |-> None, timeout |-> None]
    /\ headers' = RequestHeaders(None)
    /\ timeout' = RequestTimeout(None)
    /\ attempt' = 1
    /\ last_exc' = None
    /\ requests' = <<>>
    /\ sent' = <<>>
    /\ sleeps' = <<>>
    /\ IF game \in SupportedGames
       THEN result' = None /\ pc' = "loop"
       ELSE result' = Raise(ValueError) /\ pc' = "done"
    /\ exhausted_before' = (exhausted_before \/ LeavesError)
    /\ UNCHANGED <<config, fvars>>

\* self.session.request(method, url, headers=headers, timeout=timeout, ...)
\* answered by the outcome o.
Issue(o) ==
    /\ requests' = Append(requests, o)
    /\ sent' = Append(sent, [headers |-> headers, timeout |-> timeout])

\* What an iteration of the loop leaves alone.
frame == <<max_retries, api_key, config_timeout, calls, call, headers, timeout,
           exhausted_before, fvars>>

\* Mutant: the except clause counts the attempts from 0 in its backoff.
Except_ZeroBased(exc) ==
    /\ last_exc' = Some(exc)
    /\ sleeps' = IF NotLastAttempt(attempt)
                 THEN Append(sleeps, Backoff(attempt - 1)) ELSE sleeps
    /\ attempt' = attempt + 1
    /\ UNCHANGED <<pc, result>>

\* The except clause: remember the exception, sleep unless this was the last
\* attempt, go to the next iteration.
Except(exc) ==
    /\ last_exc' = Some(exc)
    /\ sleeps' = IF NotLastAttempt(attempt)
                 THEN Append(sleeps, Backoff(attempt)) ELSE sleeps
    /\ attempt' = attempt + 1
    /\ UNCHANGED <<pc, result>>

\* session.request raises a RequestException.
RequestFails(o) ==
    /\ pc = "loop" /\ InRange(attempt)
    /\ o \in TransportFailures
    /\ Issue(o)
    /\ Except(RequestException(o.exc))
    /\ UNCHANGED frame

\* Mutant: the 429 branch ignores Retry-After.
RateLimitWait_NoHeader(resp, a) == Backoff(a)

\* The wait of the 429 branch, when int() accepts the header.
RateLimitWait(resp, a) ==
    IF Truthy(HeaderGet(resp.headers, "Retry-After"))
    THEN IntOf(HeaderGet(resp.headers, "Retry-After")[1])
    ELSE Backoff(a)

\* Status 429.  int() raises ValueError on a value it cannot parse and
\* time.sleep raises ValueError on a negative argument; neither is caught by
\* `except (requests.RequestException, RiotAPIError)`.
RateLimited(resp) ==
    /\ pc = "loop" /\ InRange(attempt)
    /\ resp \in Responses /\ resp.status_code = 429
    /\ Issue(resp)
    /\ IF Truthy(HeaderGet(resp.headers, "Retry-After"))
          /\ ~IntParseable(HeaderGet(resp.headers, "Retry-After")[1])
       THEN /\ result' = Raise(ValueError)
            /\ pc' = "done"
            /\ UNCHANGED <<sleeps, attempt>>
       ELSE /\ sleeps' = Append(sleeps, RateLimitWait(resp, attempt))
            /\ IF RateLimitWait(resp, attempt) < 0
               THEN /\ result' = Raise(ValueError)
                    /\ pc' = "done"
                    /\ UNCHANGED attempt
               ELSE /\ attempt' = attempt + 1
                    /\ UNCHANGED <<pc, result>>
    /\ UNCHANGED <<frame, last_exc>>

\* Status 5xx: sleep and go to the next iteration.
ServerError(resp) ==
    /\ pc = "loop" /\ InRange(attempt)
    /\ resp \in Responses /\ resp.status_code # 429
    /\ 500 <= resp.status_code /\ resp.status_code < 600
    /\ Issue(resp)
    /\ sleeps' = Append(sleeps, Backoff(attempt))
    /\ attempt' = attempt + 1
    /\ UNCHANGED <<frame, pc, last_exc, result>>

\* Any other response that is not ok: RiotAPIError is raised inside the try
\* block and caught by its own except clause.
NotOk(resp) ==
    /\ pc = "loop" /\ InRange(attempt)
    /\ resp \in Responses /\ resp.status_code # 429
    /\ ~(500 <= resp.status_code /\ resp.status_code < 600)
    /\ ~resp.ok
    /\ Issue(resp)
    /\ Except(RiotAPIError(Some(resp.status_code), Some(TextOf(resp)), None))
    /\ UNCHANGED frame

\* What the call returns for an ok response.
Body(resp) == IF IsJsonContent(resp) THEN JsonOf(resp) ELSE TextOf(resp)

\* An ok response: return its JSON or its text.
Success(resp) ==
    /\ pc = "loop" /\ InRange(attempt)
    /\ resp \in Responses /\ resp.status_code # 429
    /\ ~(500 <= resp.status_code /\ resp.status_code < 600)
    /\ resp.ok
    /\ Issue(resp)
    /\ result' = Return(Body(resp))
    /\ pc' = "done"
    /\ UNCHANGED <<frame, attempt, last_exc, sleeps>>

\* The exception raised after the loop.
FinalError(exc) ==
    IF exc # None /\ exc[1].type = "RiotAPIError"
    THEN exc[1]
    ELSE RiotAPIError(None, None, IF exc = None THEN None ELSE Some(exc[1].type))

\* The loop is over without a return.
LoopExhausted ==
    /\ pc = "loop" /\ ~InRange(attempt)
    /\ result' = Raise(FinalError(last_exc))
    /\ pc' = "done"
    /\ UNCHANGED <<frame, attempt, last_exc, requests, sent, sleeps>>

Next ==
    \/ \E key \in EnvApiKeys : ConstructFromEnv(key)
    \/ \E cfg \in Configs : ConstructWithConfig(cfg)
    \/ \E kwargs \in CallerKwargs : StartRequest(kwargs)
    \/ \E game \in {"lol", "tft", "valorant"} : Get(game)
    \/ \E o \in TransportFailures : RequestFails(o)
    \/ \E resp \in RateLimitResponses : RateLimited(resp)
    \/ \E resp \in ServerErrorResponses : ServerError(resp)
    \/ \E resp \in ClientErrorResponses : NotOk(resp)
    \/ \E resp \in NotModifiedResponses \cup SuccessResponses : Success(resp)
    \/ LoopExhausted

\* No run of fetch_and_save_lol_matches is under way.
FetchInit ==
    /\ f_pc = "start"
    /\ listing = None
    /\ match_ids = <<>>
    /\ details = <<>>
    /\ saves = <<>>
    /\ saved_ids = <<>>
    /\ f_result = None

\* The client is not constructed and no fetch is under way.
Start == Init /\ FetchInit

Spec == Start /\ [][Next]_<<vars, fvars>>

-----------------------------------------------------------------------------
(* fetch_and_save_lol_matches                                              *)

\* The ways a call of a client method ends: it returns, raises RiotAPIError,
\* or raises the ValueError that _request lets through.
CallEndings == {"ok", "RiotAPIError", "ValueError"}

\* Match-id listings the API can return: up to MaxMatches ids.
MatchIds == {"KR_1", "KR_2"}
Listings == UNION { [1..n -> MatchIds] : n \in 0..MaxMatches }

\* client = RiotClient(): a missing or empty RIOT_API_KEY ends the function
\* with the ValueError of the constructor.
FetchStart(key) ==
    /\ f_pc = "start"
    /\ IF Truthy(key)
       THEN f_pc' = "listing" /\ UNCHANGED f_result
       ELSE f_pc' = "done" /\ f_result' = Raise(ValueError)
    /\ UNCHANGED <<listing, match_ids, details, saves, saved_ids, vars>>

\* match_ids = client.get_lol_match_ids_by_puuid(puuid, count=count); a
\* RiotAPIError is caught and the empty list returned.
FetchListing(ending, ids) ==
    /\ f_pc = "listing"
    /\ listing' = Some(ending)
    /\ CASE ending = "ok" ->
              /\ match_ids' = ids
              /\ f_pc' = "details"
              /\ UNCHANGED f_result
         [] ending = "RiotAPIError" ->
              /\ f_pc' = "done"
              /\ f_result' = Return(<<>>)
              /\ UNCHANGED match_ids
         [] ending = "ValueError" ->
              /\ f_pc' = "done"
              /\ f_result' = Raise(ValueError)
              /\ UNCHANGED match_ids
    /\ UNCHANGED <<details, saves, saved_ids, vars>>

\* Mutant: a failed detail request ends the loop.
DetailsAfterError_Break(ds) ==
    ds \o [i \in 1..(Len(match_ids) - Len(ds)) |-> "skipped"]

\* `continue` after a RiotAPIError of get_lol_match_detail: the loop goes on
\* with the next id.
DetailsAfterError(ds) == ds

\* One iteration of `for match_id in match_ids`.
FetchDetail(ending) ==
    /\ f_pc = "details"
    /\ Len(details) < Len(match_ids)
    /\ CASE ending = "ok" ->
              /\ details' = Append(details, ending)
              /\ saves' = Append(saves, match_ids[Len(details) + 1])
              /\ saved_ids' = Append(saved_ids, match_ids[Len(details) + 1])
              /\ UNCHANGED <<f_pc, f_result>>
         [] ending = "RiotAPIError" ->
              /\ details' = DetailsAfterError(Append(details, ending))
              /\ UNCHANGED <<f_pc, f_result, saves, saved_ids>>
         [] ending = "ValueError" ->
              /\ details' = Append(details, ending)
              /\ f_pc' = "done"
              /\ f_result' = Raise(ValueError)
              /\ UNCHANGED <<saves, saved_ids>>
    /\ UNCHANGED <<listing, match_ids, vars>>

\* return saved_ids
FetchReturn ==
    /\ f_pc = "details"
    /\ Len(details) = Len(match_ids)
    /\ f_pc' = "done"
    /\ f_result' = Return(saved_ids)
    /\ UNCHANGED <<listing, match_ids, details, saves, saved_ids, vars>>

FetchNext ==
    \/ \E key \in EnvApiKeys : FetchStart(key)
    \/ \E ending \in CallEndings, ids \in Listings : FetchListing(ending, ids)
    \/ \E ending \in CallEndings : FetchDetail(ending)
    \/ FetchReturn

SpecFetch == Start /\ [][FetchNext]_<<vars, fvars>>

-----------------------------------------------------------------------------
(* Vocabulary of the properties                                            *)

Done == pc = "done"
Raised == Done /\ result # None /\ result.kind = "raise"
Returned == Done /\ result # None /\ result.kind = "return"

IsResponse(o) == o.kind = "response"
IsFailure(o) == o.kind = "exception"
RetryableStatuses == {429, 500, 502, 503, 504}
Retryable(o) == IsResponse(o) /\ o.status_code \in RetryableStatuses
Is2xx(o) == IsResponse(o) /\ 200 <= o.status_code /\ o.status_code < 300
Plain(o) == IsResponse(o) /\ o.headers = NoHeaders
AllRequests(P(_)) == \A i \in 1..Len(requests) : P(requests[i])
LastRequest == requests[Len(requests)]

\* The code has no backoff_factor setting: with the first try counted as
\* attempt 0, the factor is the wait of the first try.
backoff_factor == Backoff(1)

-----------------------------------------------------------------------------
\* C1: a call whose every request is answered by a retryable status (no
\* Retry-After header) and that ends by raising has issued exactly
\* max_retries + 1 requests, and what it raises is the client error.
C1_ExactlyMaxRetriesPlusOne ==
    (Raised /\ requests # <<>>
       /\ AllRequests(Retryable) /\ AllRequests(Plain))
    => /\ Len(requests) = max_retries + 1
       /\ result.exc.type = "RiotAPIError"

\* C2: when the first response has a 4xx/5xx status outside
\* {429,500,502,503,504}, the call issues one request, sleeps never, and
\* raises the client error carrying that status.
C2_FatalStatusRaisesImmediately ==
    (Done /\ requests # <<>> /\ IsResponse(requests[1])
       /\ requests[1].status_code >= 400
       /\ requests[1].status_code \notin RetryableStatuses)
    => /\ Len(requests) = 1
       /\ sleeps = <<>>
       /\ Raised
       /\ result.exc.type = "RiotAPIError"
       /\ result.exc.status_code = Some(requests[1].status_code)

\* C3: the number of HTTP requests a call has issued never exceeds
\* max_retries + 1, whatever the outcomes of its requests.
C3_AttemptsBounded == Len(requests) <= max_retries + 1

\* C3 witness: a call that went through transport failures, retryable
\* statuses and a 4xx status and used every attempt of the loop.
C3_Witness ==
    /\ Done /\ max_retries >= 3 /\ Len(requests) = max_retries
    /\ \E i \in 1..Len(requests) : IsFailure(requests[i])
    /\ \E i \in 1..Len(requests) : Retryable(requests[i])
    /\ \E i \in 1..Len(requests) :
          IsResponse(requests[i]) /\ requests[i].status_code = 404

\* C4: every argument of time.sleep is >= 0.
C4_WaitsNonNegative == \A i \in 1..Len(sleeps) : sleeps[i] >= 0

\* C5: a retryable status on the first attempt followed by a 2xx response on
\* the second: the call returns the JSON body of the 2xx response after
\* exactly two requests and exactly one sleep.
C5_RetryThenSuccess ==
    (Done /\ Len(requests) >= 2 /\ Retryable(requests[1]) /\ Is2xx(requests[2]))
    => /\ Len(requests) = 2
       /\ Len(sleeps) = 1
       /\ result = Return(JsonOf(requests[2]))

\* The Retry-After header of a response is present and int() accepts it.
RetryAfterParseable(o) ==
    /\ "Retry-After" \in DOMAIN o.headers
    /\ IntParseable(o.headers["Retry-After"])

C7_FirstSuccessRoundTrip ==
    (Done /\ requests # <<>> /\ Is2xx(requests[1]))
    => /\ Len(requests) = 1
       /\ sleeps = <<>>
       /\ result = Return(JsonOf(requests[1]))

\* C8: get with the game "valorant" ends at once with a ValueError, with no
\* HTTP request and no sleep.
C8_UnsupportedGameNoRequest ==
    (call.op = "get" /\ call.game = Some("valorant"))
    => /\ Raised
       /\ result.exc.type = "ValueError"
       /\ requests = <<>>
       /\ sleeps = <<>>

\* C8 witness: a get call with the game "valorant" has ended.
C8_Witness == call.op = "get" /\ call.game = Some("valorant") /\ Done

\* C9: when the loop ends with every attempt answered by a retryable status,
\* the error raised carries the status code and the text of the last response.
C9_ExhaustedCarriesLastStatus ==
    (Raised /\ requests # <<>> /\ ~InRange(attempt)
       /\ AllRequests(Retryable) /\ AllRequests(Plain))
    => /\ result.exc.status_code = Some(LastRequest.status_code)
       /\ result.exc.text = Some(TextOf(LastRequest))

\* Number of sleeps after k attempts that all failed at transport level.
SleepsAfterFailures(k) == IF k < max_retries THEN k ELSE max_retries - 1

\* C10: while every attempt of a call fails at transport level, the call
\* sleeps 2^attempt after each failed attempt that is not the last one, and
\* at the end raises RiotAPIError, without a status code, quoting the
\* exception of the final attempt.
C10_TransportFailuresWrapped ==
    (requests # <<>> /\ AllRequests(IsFailure))
    => /\ Len(sleeps) = SleepsAfterFailures(Len(requests))
       /\ \A i \in 1..Len(sleeps) : sleeps[i] = 2 ^ i
       /\ Done => /\ Len(sleeps) = Len(requests) - 1
                  /\ result = Raise(RiotAPIError(None, None, Some(LastRequest.exc)))

\* C10 witness: a call ended after three transport failures, the last of
\* another kind than the first.
C10_Witness ==
    /\ Done /\ Len(requests) = 3 /\ AllRequests(IsFailure)
    /\ requests[1].exc = "Timeout" /\ requests[3].exc = "ConnectionError"
    /\ sleeps = <<2, 4>>

\* The current call entered the retry loop of _request.
EnteredLoop ==
    \/ call.op = "_request"
    \/ call.op = "get" /\ call.game[1] \in SupportedGames

\* C11: a call that entered the retry loop returns a value only when the
\* response of its final attempt had a 2xx status, and in every other case
\* it ends by raising RiotAPIError.
C11_ReturnOnlyOn2xx ==
    (Done /\ EnteredLoop)
    => /\ Returned => (requests # <<>> /\ Is2xx(LastRequest))
       /\ ~Returned => (Raised /\ result.exc.type = "RiotAPIError")

\* No outcome of the call is a response carrying a Retry-After header.
NoRetryAfter(o) == IsFailure(o) \/ "Retry-After" \notin DOMAIN o.headers

\* C15: a call that ended after k >= 1 HTTP requests has slept k - 1 times
\* (stated for the calls in which no response carried a Retry-After header).
C15_SleepOnlyBetweenAttempts ==
    (Done /\ requests # <<>> /\ AllRequests(NoRetryAfter))
    => Len(sleeps) = Len(requests) - 1

\* A header value that holds no digit: the empty string or a word.
HasNoDigit(s) == \A i \in 1..Len(s) : s[i] \notin Digits

\* The i-th response is a 429 whose Retry-After value is not a number.
UnparseableRetryAfter(i) ==
    /\ Retryable(requests[i])
    /\ "Retry-After" \in DOMAIN requests[i].headers
    /\ HasNoDigit(requests[i].headers["Retry-After"])

\* C16: after a retryable response whose Retry-After value is not a number
\* the call sleeps the exponential backoff of that attempt and goes on: it
\* does not end with an error other than RiotAPIError.
C16_UnparseableRetryAfterFallsBack ==
    \A i \in 1..Len(requests) :
        UnparseableRetryAfter(i)
        => /\ i <= Len(sleeps) /\ sleeps[i] = 2 ^ i
           /\ Raised => result.exc.type = "RiotAPIError"

\* C17: with attempts remaining, the wait after a transport failure on the
\* i-th attempt and the wait after a retryable status without Retry-After on
\* the i-th attempt are the same 2^i, whatever Retry-After values earlier
\* responses of the call carried.
C17_SharedBackoff ==
    \A i \in 1..Len(sleeps) :
        (IsFailure(requests[i]) \/ (Retryable(requests[i]) /\ Plain(requests[i])))
        => sleeps[i] = 2 ^ i

\* C17 witness: a transport failure on the second attempt, after a 429 that
\* carried Retry-After: 7, was followed by a wait of 4, and a 503 without
\* Retry-After on the third attempt by a wait of 8.
C17_Witness ==
    /\ Len(sleeps) >= 3
    /\ IsResponse(requests[1]) /\ RetryAfterParseable(requests[1])
    /\ sleeps[1] = 7
    /\ IsFailure(requests[2]) /\ sleeps[2] = 4
    /\ Retryable(requests[3]) /\ Plain(requests[3]) /\ sleeps[3] = 8

\* C19: when the loop ends and the final attempt was answered by a retryable
\* status, the error raised carries no transport exception and no status
\* code other than that of the final response.
C19_ErrorDescribesFinalAttempt ==
    (Raised /\ EnteredLoop /\ ~InRange(attempt)
       /\ requests # <<>> /\ Retryable(LastRequest))
    => /\ result.exc.cause = None
       /\ result.exc.status_code \in {None, Some(LastRequest.status_code)}

\* C20: a call that entered the retry loop and has ended has issued at least
\* one HTTP request.
C20_AtLeastOneRequest == (Done /\ EnteredLoop) => requests # <<>>

\* The exception the except clause leaves in last_exc after the outcomes rs
\* of one call: that of the last outcome that reached the except clause.
RECURSIVE LastErrorOf(_)
LastErrorOf(rs) ==
    IF rs = <<>> THEN None
    ELSE LET o == rs[Len(rs)]
         IN  IF IsFailure(o) THEN Some(RequestException(o.exc))
             ELSE IF o.status_code >= 400 /\ o.status_code < 500
                     /\ o.status_code # 429
             THEN Some(RiotAPIError(Some(o.status_code), Some(TextOf(o)), None))
             ELSE LastErrorOf(SubSeq(rs, 1, Len(rs) - 1))

\* C12: the retry state of a call depends on that call alone: inside the
\* loop the attempt number is one more than the requests this call has
\* issued, last_exc is the exception of this call's own outcomes, the call
\* has slept at most once per request of its own, and the error raised after
\* the loop is that of this call's own outcomes, whatever earlier calls on
\* the client consumed or recorded.
C12_RetryStatePerCall ==
    (pc \in {"loop", "done"})
    => /\ pc = "loop" => attempt = Len(requests) + 1
       /\ last_exc = LastErrorOf(requests)
       /\ Len(sleeps) <= Len(requests)
       /\ Len(requests) <= max_retries
       /\ (Raised /\ EnteredLoop /\ ~InRange(attempt))
            => result = Raise(FinalError(LastErrorOf(requests)))

\* C12 witness: after an earlier call on the client used up its attempts and
\* left an exception, a later call got a 503 and then a 200 and returned, with
\* no exception recorded.
C12_Witness ==
    /\ exhausted_before /\ calls >= 2 /\ Returned
    /\ Len(requests) = 2 /\ Retryable(requests[1]) /\ Is2xx(requests[2])
    /\ last_exc = None /\ sleeps = <<2>>

\* C13: a client never exists with an empty api_key, and a construction that
\* failed issued no HTTP request.
C13_NoClientWithoutApiKey ==
    /\ pc \notin {"new", "failed"} => api_key # <<>>
    /\ pc = "failed" => (result = Raise(ValueError) /\ sent = <<>>)

\* C14 (as stated): every HTTP request carries X-Riot-Token equal to the
\* configured api_key and the configured timeout.
C14_TokenAndConfiguredTimeout ==
    \A i \in 1..Len(sent) :
        /\ sent[i].headers["X-Riot-Token"] = api_key
        /\ sent[i].timeout = config_timeout

\* C14 (amended): every HTTP request, first attempt and retries alike,
\* carries X-Riot-Token equal to the configured api_key, whatever the caller
\* supplied for that header, and the timeout of the call: the caller's
\* timeout argument when there is one, the configured timeout otherwise.
C14_TokenAndCallTimeout ==
    /\ Len(sent) = Len(requests)
    /\ \A i \in 1..Len(sent) :
        /\ sent[i].headers["X-Riot-Token"] = api_key
        /\ sent[i].timeout =
              IF call.timeout = None THEN config_timeout ELSE call.timeout[1]

\* C14 witness: a retry was sent for a call whose caller supplied an
\* X-Riot-Token of its own and a timeout.
C14_Witness ==
    /\ Len(sent) >= 2
    /\ call.headers # None
    /\ call.headers[1]["X-Riot-Token"] # api_key
    /\ sent[2].headers["X-Riot-Token"] = api_key
    /\ sent[2].timeout = 5 /\ config_timeout # 5

\* The ids of a listing whose detail request ended well, in listing order.
RECURSIVE Fetched(_, _)
Fetched(ids, ds) ==
    IF ids = <<>> THEN <<>>
    ELSE IF ds[1] = "ok" THEN <<ids[1]>> \o Fetched(Tail(ids), Tail(ds))
    ELSE Fetched(Tail(ids), Tail(ds))

\* C18: when fetch_and_save_lol_matches returns, then after a RiotAPIError of
\* the listing it returns the empty list and has made no detail request and
\* no save; otherwise it has requested the detail of every listed id, and
\* both the list returned and the saves made are the ids whose detail
\* request succeeded, in listing order.
C18_ReturnsSavedIdsInOrder ==
    (f_pc = "done" /\ f_result.kind = "return")
    => IF listing = Some("RiotAPIError")
       THEN f_result.value = <<>> /\ details = <<>> /\ saves = <<>>
       ELSE /\ Len(details) = Len(match_ids)
            /\ \A i \in 1..Len(details) : details[i] \in {"ok", "RiotAPIError"}
            /\ f_result.value = Fetched(match_ids, details)
            /\ saves = Fetched(match_ids, details)

\* C18 witness: of three listed ids the second detail request raised
\* RiotAPIError; the first and the third were saved and returned.
C18_Witness ==
    /\ f_pc = "done" /\ f_result.kind = "return"
    /\ match_ids = <<"KR_1", "KR_2", "KR_1">>
    /\ details = <<"ok", "RiotAPIError", "ok">>
    /\ f_result.value = <<"KR_1", "KR_1">>
====
